---- MODULE Spec2Model ----
(***************************************************************************)
(* bevy_file_dialog: the bridge between background file-dialog tasks and   *)
(* the tick loop of a Bevy application.                                    *)
(*                                                                         *)
(*   src/src/lib.rs   plugin registration, the three pollers, the dialog   *)
(*                    builder and the save / load terminal calls           *)
(*   src/src/pick.rs  registration and terminal calls of the pick family   *)
(*                                                                         *)
(* A launch is one terminal builder call.  It queues a deferred command;   *)
(* applying the command looks up the sender of the launch's channel and    *)
(* spawns one background unit; the unit awaits the native dialog, does the *)
(* payload I/O, and sends one message through a bounded(1) channel; the    *)
(* poller of that channel runs in the First schedule of every tick and     *)
(* turns every message it can receive into events.                         *)
(*                                                                         *)
(* The field "launch" of messages and events, and the variable accepted,   *)
(* are history: they record where a value came from and are read by no     *)
(* action.                                                                 *)
(***************************************************************************)
EXTENDS Integers, Sequences, FiniteSets, TLC

\* ------------------------------------------------------------------ bounds

\* Number of terminal builder calls in a run.
MaxLaunch == 2

\* Largest number of targets a multi-select provider returns.
MaxSelect == 2

\* Number of with_* calls made on a plugin before it is added to the App.
MaxIntents == 3

\* Number of add_filter calls made on one dialog builder.
MaxFilters == 2

\* ------------------------------------------------------- program constants

\* bounded::<..>(1): the capacity of every channel.
ChannelCapacity == 1

\* ------------------------------------------------------------- vocabulary

\* Marker types T the application uses in with_*::<T>() and in launches.
Kinds == {"A", "B"}

\* The terminal builder calls.
Ops == {"save_file", "load_file", "load_multiple_files",
        "pick_directory_path", "pick_multiple_directory_paths",
        "pick_file_path", "pick_multiple_file_paths"}

MultiOps == {"load_multiple_files", "pick_multiple_directory_paths",
             "pick_multiple_file_paths"}

\* The with_* registration calls.
Families == {"with_save_file", "with_load_file", "with_pick_directory",
             "with_pick_file"}

\* Targets the native dialog can hand back, and what the filesystem holds.
Targets == {"/x/a.txt", "/y/b.txt"}

\* FileHandle::file_name(): the last component of the handle's path.
FileName(t) == IF t = "/x/a.txt" THEN "a.txt" ELSE "b.txt"

\* FileHandle::read(): the bytes of the file.
ReadFile(t) == IF t = "/x/a.txt" THEN "bytes-a" ELSE "bytes-b"

\* FileHandle::path().to_path_buf()
PathOf(t) == t

\* FileHandle::write(): io::Result<()>
WriteResults == {"Ok", "Err"}

\* The user data handed to the pick calls.
UserData == "data"

\* What a multi-select provider can return inside Some(..): the type is
\* Vec<FileHandle>, so the empty vector is among them.
Selections ==
    {s \in UNION {[1..n -> Targets] : n \in 0..MaxSelect} :
        \A i, j \in DOMAIN s : i # j => s[i] # s[j]}

\* ---------------------------------------------------------------- channels

\* The message type of the channel a terminal call sends into: the type
\* parameter of the StreamSender resource it looks up.
\*   Save          Option<DialogFileSaved<T>>
\*   Load          Option<DialogFileLoaded<T>>
\*   LoadMultiple  Option<Vec<DialogFileLoaded<T>>>
\*   PickDirectory DialogResult<DialogDirectoryPicked<T>>
\*   PickFile      DialogResult<DialogFilePicked<T>>
ChannelTypes == {"Save", "Load", "LoadMultiple", "PickDirectory", "PickFile"}

ChannelOf(op) ==
    CASE op = "save_file"                     -> "Save"
      [] op = "load_file"                     -> "Load"
      [] op = "load_multiple_files"           -> "LoadMultiple"
      [] op = "pick_directory_path"           -> "PickDirectory"
      [] op = "pick_multiple_directory_paths" -> "PickDirectory"
      [] op = "pick_file_path"                -> "PickFile"
      [] op = "pick_multiple_file_paths"      -> "PickFile"

\* The resource a terminal call of kind T asks the world for.
StreamSender(op, T) == <<ChannelOf(op), T>>

\* The channels one registration call creates (its insert_resource pairs).
with_save_file(T) == {<<"Save", T>>}

with_load_file(T) == {<<"Load", T>>, <<"LoadMultiple", T>>}

with_pick_directory(T) == {<<"PickDirectory", T>>}

with_pick_file(T) == {<<"PickFile", T>>}

RegisterIntent(f, T) ==
    CASE f = "with_save_file"      -> with_save_file(T)
      [] f = "with_load_file"      -> with_load_file(T)
      [] f = "with_pick_directory" -> with_pick_directory(T)
      [] f = "with_pick_file"      -> with_pick_file(T)

\* The event types (add_event / add_message), one stream per type and kind.
CompletionOf(ch) ==
    CASE ch = "Save"          -> "DialogFileSaved"
      [] ch = "Load"          -> "DialogFileLoaded"
      [] ch = "LoadMultiple"  -> "DialogFileLoaded"
      [] ch = "PickDirectory" -> "DialogDirectoryPicked"
      [] ch = "PickFile"      -> "DialogFilePicked"

CancellationOf(ch) ==
    CASE ch = "Save"          -> "DialogFileSaveCanceled"
      [] ch = "Load"          -> "DialogFileLoadCanceled"
      [] ch = "LoadMultiple"  -> "DialogFileLoadCanceled"
      [] ch = "PickDirectory" -> "DialogDirectoryPickCanceled"
      [] ch = "PickFile"      -> "DialogFilePickCanceled"

CompletionTypes == {CompletionOf(ch) : ch \in ChannelTypes}

CancellationTypes == {CancellationOf(ch) : ch \in ChannelTypes}

\* The registration a terminal call needs: the with_* named by its
\* .expect("FileDialogPlugin not initialized with '..'") message.
FamilyOf(op) ==
    CASE op = "save_file"                     -> "with_save_file"
      [] op = "load_file"                     -> "with_load_file"
      [] op = "load_multiple_files"           -> "with_load_file"
      [] op = "pick_directory_path"           -> "with_pick_directory"
      [] op = "pick_multiple_directory_paths" -> "with_pick_directory"
      [] op = "pick_file_path"                -> "with_pick_file"
      [] op = "pick_multiple_file_paths"      -> "with_pick_file"

\* The event types a registration closure adds (add_event / add_message).
EventsAdded(f) ==
    CASE f = "with_save_file"      -> {"DialogFileSaved", "DialogFileSaveCanceled"}
      [] f = "with_load_file"      -> {"DialogFileLoaded", "DialogFileLoadCanceled"}
      [] f = "with_pick_directory" ->
            {"DialogDirectoryPicked", "DialogDirectoryPickCanceled"}
      [] f = "with_pick_file"      -> {"DialogFilePicked", "DialogFilePickCanceled"}

\* The plugin the application is built with: the with_* calls, in order.
Plugin ==
    << <<"with_save_file", "A">>, <<"with_save_file", "B">>,
       <<"with_load_file", "A">>, <<"with_pick_directory", "A">>,
       <<"with_pick_file", "A">> >>

\* Plugin::build: every collected intent is applied to the app.
build(intents) ==
    UNION {RegisterIntent(intents[n][1], intents[n][2]) : n \in DOMAIN intents}

\* The pollers the plugin added to the First schedule, in the order build
\* added them. They run one after the other: pollers of different channels
\* share nothing, and the two load pollers of one kind write the same
\* streams, so the scheduler never runs them at the same time.
PollersOf(f, T) ==
    CASE f = "with_save_file"      -> << <<"Save", T>> >>
      [] f = "with_load_file"      -> << <<"Load", T>>, <<"LoadMultiple", T>> >>
      [] f = "with_pick_directory" -> << <<"PickDirectory", T>> >>
      [] f = "with_pick_file"      -> << <<"PickFile", T>> >>

RECURSIVE Systems(_)
Systems(intents) ==
    IF intents = <<>> THEN <<>>
    ELSE PollersOf(Head(intents)[1], Head(intents)[2]) \o Systems(Tail(intents))

\* The streams the registered channels write to.
StreamsOf(reg) ==
    {<<CompletionOf(c[1]), c[2]>> : c \in reg} \cup
    {<<CancellationOf(c[1]), c[2]>> : c \in reg}

\* The resource types of a channel: StreamSender<M> and StreamReceiver<M>.
SenderOf(c) == <<"StreamSender", c>>

ReceiverOf(c) == <<"StreamReceiver", c>>

\* App::insert_resource: a resource of the same type is replaced.
insert_resource(res, key, value) ==
    [x \in DOMAIN res \cup {key} |-> IF x = key THEN value ELSE res[x]]

\* bounded(): the channel the n-th closure makes for the message type of c.
bounded(n, c) == <<n, c[1]>>

\* The two insert_resource calls one closure makes for channel c.
InsertChannel(res, n, c) ==
    insert_resource(insert_resource(res, SenderOf(c), bounded(n, c)),
                    ReceiverOf(c), bounded(n, c))

\* The resources after the n-th closure has run on top of res.
ApplyIntent(res, n, f, T) ==
    LET cs == PollersOf(f, T)
    IN IF Len(cs) = 1
        THEN InsertChannel(res, n, cs[1])
        ELSE InsertChannel(InsertChannel(res, n, cs[1]), n, cs[2])

\* `for action in &self.0 { action(app); }`: the resources after the first
\* n closures.
RECURSIVE Resources(_, _)
Resources(intents, n) ==
    IF n = 0 THEN <<>>
    ELSE ApplyIntent(Resources(intents, n - 1), n, intents[n][1], intents[n][2])

\* (mutant) the assertion is left out.
build_assert_skipped(intents) == TRUE

\* assert!(!self.0.is_empty(), ..): whether the assertion of build passes.
build_assert(intents) == intents # <<>>

\* FileDialogPlugin::new(): Default::default().
new == <<>>

\* The schedules of one tick that matter here, in the order the Main
\* schedule runs them.
MainScheduleOrder == <<"First", "Update", "Last">>

\* (mutant) the pollers are added to the Last schedule.
PollScheduleLast == "Last"

\* app.add_systems(First, poll_..): the schedule the pollers are added to.
PollSchedule == "First"

\* .add_systems(Update, ..): the schedule of the application's systems, the
\* consumers of the events and the callers of the builder among them.
ConsumerSchedule == "Update"

\* The place of a schedule in the tick.
PlaceOf(schedule) ==
    CHOOSE n \in DOMAIN MainScheduleOrder : MainScheduleOrder[n] = schedule

\* The schedule that runs after `schedule` among those that hold systems of
\* the model: a later one of the same tick, or else the earliest one of the
\* next tick.
NextSchedule(schedule) ==
    LET held == {PlaceOf(PollSchedule), PlaceOf(ConsumerSchedule)}
        later == {n \in held : n > PlaceOf(schedule)}
        Min(S) == CHOOSE n \in S : \A m \in S : n <= m
    IN MainScheduleOrder[IF later # {} THEN Min(later) ELSE Min(held)]

\* ---------------------------------------------------------------- messages

\* An item is the payload of one completion event:
\*   DialogFileSaved  {file_name, result}      name, payload = file_name, result
\*   DialogFileLoaded {file_name, contents}    name, payload = file_name, contents
\*   Dialog*Picked    {path, data}             name, payload = path, data
Item(i, name, payload) == [launch |-> i, name |-> name, payload |-> payload]

\* None / DialogResult::Canceled
Canceled(i) == [tag |-> "Canceled", items |-> <<>>, launch |-> i]

\* Some(event) / DialogResult::Single(event)
Single(i, item) == [tag |-> "Single", items |-> <<item>>, launch |-> i]

\* Some(events) / DialogResult::Batch(events)
Batch(i, items) == [tag |-> "Batch", items |-> items, launch |-> i]

\* The value of a unit's message slot before the unit has built its message.
NoMessage == [tag |-> "Unset", items |-> <<>>, launch |-> 0]

\* The cancellation events: a PhantomData marker and nothing else.
CanceledEvent(i) == Item(i, "PhantomData", "PhantomData")

\* ------------------------------------------------------------------- state

VARIABLES
    registry,   \* the channels whose sender and receiver are resources of the world
    phase,      \* the schedule the tick loop is in: "First" or "Update" ("Exited"
                \* once the application has ended)
    pollers,    \* the pollers of the First schedule, in the order they run
    polling,    \* the index of the poller that is running; 0 outside First
    units,      \* one record per launch, in launch order: the command, then the unit
                \* (pc: queued, opening, io, send, done, panicked (the command's
                \* expect) or unwrap (the unit's send); answer: what the dialog
                \* returned; io: what the payload I/O returned)
    mailbox,    \* per registered channel, the messages sent and not yet received
    accepted,   \* per registered channel, the launches whose send returned, in order
    received,   \* per registered channel, the launches whose message was received, in order
    events,     \* per stream, the events written so far
    panic,      \* "none", or what brought the application down
    plugin,     \* FileDialogPlugin.0: the registration closures collected so far
    app,        \* "new" until the plugin is added to the App, then "built"
    resources,  \* the StreamSender / StreamReceiver resources of the world: the
                \* channel (the bounded() call that made it) each one holds
    dialog,     \* the FileDialog builder an application system is holding
    provider    \* the configurations the native dialogs were opened with

\* The state of the running application.
runVars == <<registry, pollers, phase, polling, units, mailbox, accepted, received, events, panic>>

\* The state of setup and of the dialog builder.
hostVars == <<plugin, app, resources, dialog, provider>>

vars == <<registry, pollers, phase, polling, units, mailbox, accepted, received, events, panic,
          plugin, app, resources, dialog, provider>>

NoSender == <<"none", "none">>

\* The provider's answer: None, or Some(files).
None == [some |-> FALSE, files |-> <<>>]

Some(files) == [some |-> TRUE, files |-> files]

\* What the native dialog of a terminal call can return.
ProviderAnswers(op) ==
    {None} \cup
    IF op \in MultiOps
        THEN {Some(s) : s \in Selections}
        ELSE {Some(<<t>>) : t \in Targets}

\* (mutant) the terminal call looks up the sender and spawns the task
\* itself instead of queueing a command.
QueuedCommand_spawned(op, T) ==
    [op |-> op, kind |-> T, pc |-> "opening", sender |-> StreamSender(op, T),
     answer |-> None, io |-> "none", msg |-> NoMessage, wake |-> "none"]

\* A launch as the terminal call leaves it: a queued command.
QueuedCommand(op, T) ==
    [op |-> op, kind |-> T, pc |-> "queued", sender |-> NoSender,
     answer |-> None, io |-> "none", msg |-> NoMessage, wake |-> "none"]

\* Option<PathBuf> / Option<String> of the builder's fields.
Unset == <<>>

SetTo(x) == <<x>>

\* FileDialogExt::dialog: the builder as created. The field last names the
\* latest builder call and is history.
NewDialog ==
    [filters |-> <<>>, starting_directory |-> Unset, file_name |-> Unset,
     title |-> Unset, last |-> <<"dialog">>]

\* The builder after a terminal call has consumed it (self by value).
Moved == [filters |-> <<>>, starting_directory |-> Unset, file_name |-> Unset,
          title |-> Unset, last |-> <<"moved">>]

\* AsyncFileDialog::new(): the configuration of a native dialog as created.
AsyncFileDialog_new ==
    [filters |-> <<>>, starting_directory |-> Unset, file_name |-> Unset,
     title |-> Unset]

\* No native dialog has been opened from the builder.
NotOpened == [op |-> "none", builder |-> Moved, config |-> AsyncFileDialog_new]

Init ==
    /\ registry = build(Plugin)
    /\ phase = "Update"
    /\ pollers = Systems(Plugin)
    /\ polling = 0
    /\ units = <<>>
    /\ mailbox = [c \in build(Plugin) |-> <<>>]
    /\ accepted = [c \in build(Plugin) |-> <<>>]
    /\ received = [c \in build(Plugin) |-> <<>>]
    /\ events = [s \in StreamsOf(build(Plugin)) |-> <<>>]
    /\ panic = "none"
    /\ plugin = Plugin
    /\ app = "built"
    /\ resources = Resources(Plugin, Len(Plugin))
    /\ dialog = Moved
    /\ provider = NotOpened

\* --------------------------------------------------- launch (tick thread)

\* (mutant) the strict policy: a launch is refused while an earlier launch
\* on the same channel has not finished its send.
LaunchStrict(op, T) ==
    /\ panic = "none"
    /\ phase = "Update"
    /\ Len(units) < MaxLaunch
    /\ \A i \in DOMAIN units :
            (units[i].op = op /\ units[i].kind = T) => units[i].pc = "done"
    /\ units' = Append(units, QueuedCommand(op, T))
    /\ UNCHANGED <<registry, pollers, phase, polling, mailbox, accepted, received, events, panic>>
    /\ UNCHANGED hostVars

\* A terminal builder call made by an application system: commands.add /
\* commands.queue of the closure, and nothing else.
Launch(op, T) ==
    /\ panic = "none"
    /\ phase = ConsumerSchedule
    /\ Len(units) < MaxLaunch
    /\ units' = Append(units, QueuedCommand(op, T))
    /\ UNCHANGED <<registry, pollers, phase, polling, mailbox, accepted, received, events, panic>>
    /\ UNCHANGED hostVars

\* (mutant) the resource is keyed by the message type without the marker T:
\* every kind finds the sender of kind "A".
get_resource_any_kind(reg, op, T) ==
    IF StreamSender(op, T) \in reg THEN <<ChannelOf(op), "A">> ELSE NoSender

\* (mutant) no .expect(..): the sender is taken to be there.
get_resource_unchecked(reg, op, T) == StreamSender(op, T)

\* world.get_resource::<StreamSender<..>>(): the sender, if registered.
get_resource(reg, op, T) ==
    IF StreamSender(op, T) \in reg THEN StreamSender(op, T) ELSE NoSender

\* The first queued command whose .expect(..) fails, or 0.
FirstFailing(us, reg) ==
    LET bad == {i \in DOMAIN us :
                    /\ us[i].pc = "queued"
                    /\ get_resource(reg, us[i].op, us[i].kind) = NoSender}
    IN IF bad = {} THEN 0 ELSE CHOOSE i \in bad : \A j \in bad : i <= j

\* The queued commands are applied in order at the end of the schedule: each
\* clones its sender and spawns its unit (detached), or panics on .expect.
\* A panic unwinds the tick thread: the commands behind it are never applied.
\* (mutant) a command whose sender resource is missing creates the channel
\* on the spot instead of failing in expect.
ApplyCommands_registering ==
    /\ panic = "none"
    /\ phase = ConsumerSchedule
    /\ LET missing == {StreamSender(units[i].op, units[i].kind) :
                            i \in {j \in DOMAIN units : units[j].pc = "queued"}}
                       \ registry
           reg == registry \cup missing
       IN /\ registry' = reg
          /\ mailbox' = [c \in reg |-> IF c \in registry THEN mailbox[c] ELSE <<>>]
          /\ accepted' = [c \in reg |-> IF c \in registry THEN accepted[c] ELSE <<>>]
          /\ received' = [c \in reg |-> IF c \in registry THEN received[c] ELSE <<>>]
          /\ events' = [s \in StreamsOf(reg) |->
                            IF s \in DOMAIN events THEN events[s] ELSE <<>>]
          /\ units' = [i \in DOMAIN units |->
                IF units[i].pc # "queued" THEN units[i]
                ELSE [units[i] EXCEPT
                        !.pc = "opening",
                        !.sender = StreamSender(units[i].op, units[i].kind)]]
    /\ panic' = "none"
    /\ phase' = NextSchedule(ConsumerSchedule)
    /\ polling' = 1
    /\ UNCHANGED pollers
    /\ UNCHANGED hostVars

ApplyCommands ==
    /\ panic = "none"
    /\ phase = ConsumerSchedule
    /\ LET f == FirstFailing(units, registry) IN
       /\ units' = [i \in DOMAIN units |->
            IF units[i].pc # "queued" THEN units[i]
            ELSE IF f = 0 \/ i < f
                THEN [units[i] EXCEPT
                        !.pc = "opening",
                        !.sender = get_resource(registry, units[i].op, units[i].kind)]
            ELSE IF i = f THEN [units[i] EXCEPT !.pc = "panicked"]
            ELSE units[i]]
       /\ panic' = IF f = 0 THEN "none" ELSE "expect"
       /\ phase' = IF f = 0 THEN NextSchedule(ConsumerSchedule) ELSE phase
       /\ polling' = IF f = 0 THEN 1 ELSE 0
    /\ UNCHANGED <<registry, pollers, mailbox, accepted, received, events>>
    /\ UNCHANGED hostVars

\* ------------------------------------------------------- background units

\* The message each unit sends, from the provider's answer (and, for save,
\* the outcome r of the write). One operator per async block.

\* (mutant) a failed write is reported like a dismissal.
save_file_message_err_as_none(i, answer, r) ==
    IF ~answer.some \/ r = "Err" THEN Canceled(i)
    ELSE Single(i, Item(i, FileName(answer.files[1]), r))

\* save_file: None -> send(None); Some(file) -> send(Some(DialogFileSaved
\* {file_name: file.file_name(), result: file.write(&contents).await})).
save_file_message(i, answer, r) ==
    IF ~answer.some THEN Canceled(i)
    ELSE Single(i, Item(i, FileName(answer.files[1]), r))

\* load_file: None -> send(None); Some(file) -> send(Some(DialogFileLoaded
\* {file_name: file.file_name(), contents: file.read().await})).
load_file_message(i, answer) ==
    IF ~answer.some THEN Canceled(i)
    ELSE Single(i, Item(i, FileName(answer.files[1]), ReadFile(answer.files[1])))

\* (mutant) each event is put in front of the earlier ones
\* (events.insert(0, ..)): the batch is in reverse selection order.
load_multiple_files_message_reversed(i, answer) ==
    IF ~answer.some THEN Canceled(i)
    ELSE Batch(i, [n \in DOMAIN answer.files |->
                    LET f == answer.files[Len(answer.files) + 1 - n]
                    IN Item(i, FileName(f), ReadFile(f))])

\* load_multiple_files: None -> send(None); Some(files) -> one event per
\* file, pushed in order, send(Some(events)).
load_multiple_files_message(i, answer) ==
    IF ~answer.some THEN Canceled(i)
    ELSE Batch(i, [n \in DOMAIN answer.files |->
                    Item(i, FileName(answer.files[n]), ReadFile(answer.files[n]))])

\* pick_directory_path: None -> Canceled; Some(file) -> Single({path, data}).
pick_directory_path_message(i, answer, data) ==
    IF ~answer.some THEN Canceled(i)
    ELSE Single(i, Item(i, PathOf(answer.files[1]), data))

\* pick_multiple_directory_paths: None -> Canceled; Some(files) ->
\* Batch(vec![data; files.len()] zipped with files).
pick_multiple_directory_paths_message(i, answer, data) ==
    IF ~answer.some THEN Canceled(i)
    ELSE Batch(i, [n \in DOMAIN answer.files |->
                    Item(i, PathOf(answer.files[n]), data)])

\* pick_file_path: as pick_directory_path, with DialogFilePicked.
pick_file_path_message(i, answer, data) ==
    IF ~answer.some THEN Canceled(i)
    ELSE Single(i, Item(i, PathOf(answer.files[1]), data))

\* (mutant) `vec![event; files.len()]`: the event of the first file is
\* repeated instead of the data.
pick_multiple_file_paths_message_repeated(i, answer, data) ==
    IF ~answer.some THEN Canceled(i)
    ELSE Batch(i, [n \in DOMAIN answer.files |->
                    Item(i, PathOf(answer.files[1]), data)])

\* pick_multiple_file_paths: as pick_multiple_directory_paths.
pick_multiple_file_paths_message(i, answer, data) ==
    IF ~answer.some THEN Canceled(i)
    ELSE Batch(i, [n \in DOMAIN answer.files |->
                    Item(i, PathOf(answer.files[n]), data)])

MessageOf(op, i, answer, r) ==
    CASE op = "save_file"                     -> save_file_message(i, answer, r)
      [] op = "load_file"                     -> load_file_message(i, answer)
      [] op = "load_multiple_files"           -> load_multiple_files_message(i, answer)
      [] op = "pick_directory_path"           ->
            pick_directory_path_message(i, answer, UserData)
      [] op = "pick_multiple_directory_paths" ->
            pick_multiple_directory_paths_message(i, answer, UserData)
      [] op = "pick_file_path"                -> pick_file_path_message(i, answer, UserData)
      [] op = "pick_multiple_file_paths"      ->
            pick_multiple_file_paths_message(i, answer, UserData)

\* The terminal calls whose unit awaits payload I/O after a selection.
IoOps == {"save_file", "load_file", "load_multiple_files"}

\* (mutant) no early return on None: the write or read is reached on the
\* cancellation path too.
AfterDialog_without_return(op, answer) ==
    IF op \in IoOps THEN "io" ELSE "send"

\* Where a unit goes when its dialog returns: to the payload I/O only with a
\* selection (let Some(file) = file else { send; return }), else to the send.
AfterDialog(op, answer) ==
    IF answer.some /\ op \in IoOps THEN "io" ELSE "send"

\* (mutant) `let _ = event_loop_proxy.as_ref().map(WakeUpOnDrop);`: the
\* guard is not bound to a name and is dropped at the end of the statement,
\* before the result is sent.
wake_up_unbound(op) ==
    IF ChannelOf(op) \in {"PickDirectory", "PickFile"} THEN "issued" ELSE "none"

\* `let _wake_up = event_loop_proxy.as_ref().map(WakeUpOnDrop);` right after
\* the await of the dialog in the four pick calls: a guard bound to a name,
\* alive until the block of the task ends. The host runs winit, so the
\* EventLoopProxyWrapper resource exists (without it there is no guard and
\* no wake-up). The save and load calls make no guard.
wake_up(op) ==
    IF ChannelOf(op) \in {"PickDirectory", "PickFile"} THEN "armed" ELSE "none"

\* Drop of WakeUpOnDrop: the guard sends the wake-up to the event loop.
WakeUpOnDrop_drop(w) == IF w = "armed" THEN "issued" ELSE w

\* The native dialog of unit i returns: the user selected or dismissed.
DialogReturns(i) ==
    /\ panic = "none"
    /\ i \in DOMAIN units
    /\ units[i].pc = "opening"
    /\ \E answer \in ProviderAnswers(units[i].op) :
        units' = [units EXCEPT
            ![i].answer = answer,
            ![i].wake = wake_up(units[i].op),
            ![i].pc = AfterDialog(units[i].op, answer),
            ![i].msg = IF AfterDialog(units[i].op, answer) = "send"
                         THEN MessageOf(units[i].op, i, answer, "Ok")
                         ELSE NoMessage]
    /\ UNCHANGED <<registry, pollers, phase, polling, mailbox, accepted, received, events, panic>>
    /\ UNCHANGED hostVars

\* The payload I/O of unit i completes: the write (with either outcome) or
\* the read(s); the unit has built its event(s).
PayloadIo(i) ==
    /\ panic = "none"
    /\ i \in DOMAIN units
    /\ units[i].pc = "io"
    /\ \E r \in IF units[i].op = "save_file" THEN WriteResults ELSE {"Ok"} :
        units' = [units EXCEPT
            ![i].pc = "send",
            ![i].io = r,
            ![i].msg = MessageOf(units[i].op, i, units[i].answer, r)]
    /\ UNCHANGED <<registry, pollers, phase, polling, mailbox, accepted, received, events, panic>>
    /\ UNCHANGED hostVars

\* The sends of launch i that returned: positions <<channel, n>> of accepted.
Sends(i) ==
    UNION {{<<c, n>> : n \in {m \in DOMAIN accepted[c] : accepted[c][m] = i}} :
            c \in DOMAIN accepted}

\* (mutant) crossbeam_channel::unbounded(): a send never waits.
CanSend_unbounded(c) == TRUE

\* crossbeam's bounded channel: send returns once the message is in the
\* channel, and waits while the channel is full.
CanSend(c) == Len(mailbox[c]) < ChannelCapacity

\* (mutant) the unit does not return after its send and sends again.
DeliverWithoutReturn(i) ==
    /\ panic = "none"
    /\ i \in DOMAIN units
    /\ units[i].pc = "send"
    /\ CanSend(units[i].sender)
    /\ mailbox' = [mailbox EXCEPT ![units[i].sender] = Append(@, units[i].msg)]
    /\ accepted' = [accepted EXCEPT ![units[i].sender] = Append(@, i)]
    /\ units' = [units EXCEPT ![i].pc = IF ~units[i].answer.some /\ Sends(i) = {}
                                          THEN "send" ELSE "done"]
    /\ UNCHANGED <<registry, pollers, phase, polling, received, events, panic>>
    /\ UNCHANGED hostVars

\* (mutant) try_send: the message is dropped when the channel is full.
DeliverTrySend(i) ==
    /\ panic = "none"
    /\ i \in DOMAIN units
    /\ units[i].pc = "send"
    /\ mailbox' = IF CanSend(units[i].sender)
                    THEN [mailbox EXCEPT ![units[i].sender] = Append(@, units[i].msg)]
                    ELSE mailbox
    /\ accepted' = IF CanSend(units[i].sender)
                    THEN [accepted EXCEPT ![units[i].sender] = Append(@, i)]
                    ELSE accepted
    /\ units' = [units EXCEPT ![i].pc = "done",
                                       ![i].wake = WakeUpOnDrop_drop(@)]
    /\ UNCHANGED <<registry, pollers, phase, polling, received, events, panic>>
    /\ UNCHANGED hostVars

\* (mutant) a single result slot instead of a queue: the send does not wait
\* and replaces a result that is still there.
DeliverReplacing(i) ==
    /\ panic = "none"
    /\ i \in DOMAIN units
    /\ units[i].pc = "send"
    /\ mailbox' = [mailbox EXCEPT ![units[i].sender] = <<units[i].msg>>]
    /\ accepted' = [accepted EXCEPT ![units[i].sender] = Append(@, i)]
    /\ units' = [units EXCEPT ![i].pc = "done",
                                       ![i].wake = WakeUpOnDrop_drop(@)]
    /\ UNCHANGED <<registry, pollers, phase, polling, received, events, panic>>
    /\ UNCHANGED hostVars

\* The receiver of channel c is alive: it is a resource of the world.
Connected(c) == c \in registry

\* (mutant) `let _ = sender.send(msg);`: the error of a send into a channel
\* whose receiver is gone is ignored and the unit finishes.
DeliverIgnoringError(i) ==
    /\ panic = "none"
    /\ i \in DOMAIN units
    /\ units[i].pc = "send"
    /\ IF Connected(units[i].sender)
        THEN /\ CanSend(units[i].sender)
             /\ mailbox' = [mailbox EXCEPT ![units[i].sender] = Append(@, units[i].msg)]
             /\ accepted' = [accepted EXCEPT ![units[i].sender] = Append(@, i)]
             /\ units' = [units EXCEPT ![i].pc = "done",
                                       ![i].wake = WakeUpOnDrop_drop(@)]
        ELSE /\ units' = [units EXCEPT ![i].pc = "done",
                                       ![i].wake = WakeUpOnDrop_drop(@)]
             /\ UNCHANGED <<mailbox, accepted>>
    /\ UNCHANGED <<registry, pollers, phase, polling, received, events, panic>>
    /\ UNCHANGED hostVars

\* sender.send(msg).unwrap() of unit i: send returns Ok once the message is
\* in the channel, and Err(SendError) when the receiver has been dropped,
\* also for a sender that was waiting for room; unwrap panics on the Err.
\* The block of the task ends after the send, on the `return` of the
\* cancellation path too, or unwinds from the panic: the locals are dropped,
\* the wake-up guard of a pick among them.
Deliver(i) ==
    /\ panic = "none"
    /\ i \in DOMAIN units
    /\ units[i].pc = "send"
    /\ IF Connected(units[i].sender)
        THEN /\ CanSend(units[i].sender)
             /\ mailbox' = [mailbox EXCEPT ![units[i].sender] = Append(@, units[i].msg)]
             /\ accepted' = [accepted EXCEPT ![units[i].sender] = Append(@, i)]
             /\ units' = [units EXCEPT ![i].pc = "done",
                                       ![i].wake = WakeUpOnDrop_drop(@)]
        ELSE /\ units' = [units EXCEPT ![i].pc = "unwrap",
                                       ![i].wake = WakeUpOnDrop_drop(@)]
             /\ UNCHANGED <<mailbox, accepted>>
    /\ UNCHANGED <<registry, pollers, phase, polling, received, events, panic>>
    /\ UNCHANGED hostVars

\* ----------------------------------------------------------------- pollers

\* EventWriter::send and EventWriter::send_batch.
send(ev, stream, e) == [ev EXCEPT ![stream] = Append(@, e)]

send_batch(ev, stream, es) == [ev EXCEPT ![stream] = @ \o es]

\* The match of each poller on one received message.
save_match(ev, T, event) ==
    IF event.tag # "Canceled"
        THEN send(ev, <<"DialogFileSaved", T>>, event.items[1])
        ELSE send(ev, <<"DialogFileSaveCanceled", T>>, CanceledEvent(event.launch))

\* (mutant) the None arm writes to the completion stream.
load_match_cancel_as_loaded(ev, T, event) ==
    IF event.tag # "Canceled"
        THEN send(ev, <<"DialogFileLoaded", T>>, event.items[1])
        ELSE send(ev, <<"DialogFileLoaded", T>>, CanceledEvent(event.launch))

load_match(ev, T, event) ==
    IF event.tag # "Canceled"
        THEN send(ev, <<"DialogFileLoaded", T>>, event.items[1])
        ELSE send(ev, <<"DialogFileLoadCanceled", T>>, CanceledEvent(event.launch))

\* (mutant) send instead of send_batch: the first event of the batch only.
load_multiple_match_first_only(ev, T, event) ==
    IF event.tag # "Canceled"
        THEN IF event.items = <<>> THEN ev
             ELSE send(ev, <<"DialogFileLoaded", T>>, event.items[1])
        ELSE send(ev, <<"DialogFileLoadCanceled", T>>, CanceledEvent(event.launch))

\* (mutant) the batch is written to the completion stream of the pick-file
\* family.
load_multiple_match_to_picked(ev, T, event) ==
    IF event.tag # "Canceled"
        THEN send_batch(ev, <<"DialogFilePicked", T>>, event.items)
        ELSE send(ev, <<"DialogFileLoadCanceled", T>>, CanceledEvent(event.launch))

load_multiple_match(ev, T, event) ==
    IF event.tag # "Canceled"
        THEN send_batch(ev, <<"DialogFileLoaded", T>>, event.items)
        ELSE send(ev, <<"DialogFileLoadCanceled", T>>, CanceledEvent(event.launch))

\* handle_dialog_result::<Picked, Canceled>: Single -> one completion event,
\* Batch -> one per item, Canceled -> one cancellation event.
dialog_result_match(ev, ch, T, event) ==
    CASE event.tag = "Single"   -> send(ev, <<CompletionOf(ch), T>>, event.items[1])
      [] event.tag = "Batch"    -> send_batch(ev, <<CompletionOf(ch), T>>, event.items)
      [] event.tag = "Canceled" ->
            send(ev, <<CancellationOf(ch), T>>, CanceledEvent(event.launch))

Match(ev, c, event) ==
    CASE c[1] = "Save"         -> save_match(ev, c[2], event)
      [] c[1] = "Load"         -> load_match(ev, c[2], event)
      [] c[1] = "LoadMultiple" -> load_multiple_match(ev, c[2], event)
      [] OTHER                 -> dialog_result_match(ev, c[1], c[2], event)

\* (mutant) `for event in receiver.iter()`: the blocking iterator waits for
\* the next message instead of ending on an empty channel.
iter(c) ==
    /\ panic = "none"
    /\ phase = "First"
    /\ polling \in DOMAIN pollers
    /\ pollers[polling] = c
    /\ mailbox[c] # <<>>
    /\ mailbox' = [mailbox EXCEPT ![c] = Tail(@)]
    /\ events' = Match(events, c, Head(mailbox[c]))
    /\ received' = [received EXCEPT ![c] = Append(@, Head(mailbox[c]).launch)]
    /\ UNCHANGED <<registry, pollers, phase, polling, units, accepted, panic>>
    /\ UNCHANGED hostVars

\* (mutant) the poller reads the oldest message without taking it out of
\* the channel, writes its events and ends.
try_iter_peek(c) ==
    /\ panic = "none"
    /\ phase = PollSchedule
    /\ polling \in DOMAIN pollers
    /\ pollers[polling] = c
    /\ events' = IF mailbox[c] # <<>> THEN Match(events, c, Head(mailbox[c])) ELSE events
    /\ received' = IF mailbox[c] # <<>>
                    THEN [received EXCEPT ![c] = Append(@, Head(mailbox[c]).launch)]
                    ELSE received
    /\ polling' = IF polling = Len(pollers) THEN 0 ELSE polling + 1
    /\ phase' = IF polling = Len(pollers) THEN NextSchedule(PollSchedule) ELSE PollSchedule
    /\ UNCHANGED <<registry, pollers, units, mailbox, accepted, panic>>
    /\ UNCHANGED hostVars

\* (mutant) a watchdog: a poller that finds its channel empty writes a
\* cancellation event for a launch of its channel whose dialog is still open.
try_iter_watchdog(c) ==
    /\ panic = "none"
    /\ phase = PollSchedule
    /\ polling \in DOMAIN pollers
    /\ pollers[polling] = c
    /\ IF mailbox[c] # <<>>
        THEN /\ mailbox' = [mailbox EXCEPT ![c] = Tail(@)]
             /\ events' = Match(events, c, Head(mailbox[c]))
             /\ received' = [received EXCEPT ![c] = Append(@, Head(mailbox[c]).launch)]
             /\ UNCHANGED <<polling, phase>>
        ELSE /\ polling' = IF polling = Len(pollers) THEN 0 ELSE polling + 1
             /\ phase' = IF polling = Len(pollers)
                            THEN NextSchedule(PollSchedule) ELSE PollSchedule
             /\ events' =
                  LET open == {i \in DOMAIN units :
                                units[i].pc = "opening" /\ units[i].sender = c}
                  IN IF open = {} THEN events
                     ELSE send(events, <<CancellationOf(c[1]), c[2]>>,
                               CanceledEvent(CHOOSE i \in open : TRUE))
             /\ UNCHANGED <<mailbox, received>>
    /\ UNCHANGED <<registry, pollers, units, accepted, panic>>
    /\ UNCHANGED hostVars

\* One turn of `for event in receiver.try_iter()` of the poller of channel c:
\* try_recv either takes the oldest message, which the loop body turns into
\* events, or finds the channel empty, which ends the poller; the next
\* poller runs, and after the last one the next schedule that holds systems:
\* the application's (Update).
try_iter(c) ==
    /\ panic = "none"
    /\ phase = PollSchedule
    /\ polling \in DOMAIN pollers
    /\ pollers[polling] = c
    /\ IF mailbox[c] # <<>>
        THEN /\ mailbox' = [mailbox EXCEPT ![c] = Tail(@)]
             /\ events' = Match(events, c, Head(mailbox[c]))
             /\ received' = [received EXCEPT ![c] = Append(@, Head(mailbox[c]).launch)]
             /\ UNCHANGED <<polling, phase>>
        ELSE /\ polling' = IF polling = Len(pollers) THEN 0 ELSE polling + 1
             /\ phase' = IF polling = Len(pollers)
                            THEN NextSchedule(PollSchedule) ELSE PollSchedule
             /\ UNCHANGED <<mailbox, received, events>>
    /\ UNCHANGED <<registry, pollers, units, accepted, panic>>
    /\ UNCHANGED hostVars

poll_save_dialog_result(T) == try_iter(<<"Save", T>>)

poll_load_dialog_result(T) == try_iter(<<"Load", T>>)

poll_load_multiple_dialog_result(T) == try_iter(<<"LoadMultiple", T>>)

handle_dialog_result(ch, T) == try_iter(<<ch, T>>)

\* ------------------------------------------------------------ the program

Next ==
    \/ \E op \in Ops, T \in Kinds : Launch(op, T)
    \/ ApplyCommands
    \/ \E i \in 1..MaxLaunch : DialogReturns(i)
    \/ \E i \in 1..MaxLaunch : PayloadIo(i)
    \/ \E i \in 1..MaxLaunch : Deliver(i)
    \/ \E T \in Kinds : poll_save_dialog_result(T)
    \/ \E T \in Kinds : poll_load_dialog_result(T)
    \/ \E T \in Kinds : poll_load_multiple_dialog_result(T)
    \/ \E ch \in {"PickDirectory", "PickFile"}, T \in Kinds : handle_dialog_result(ch, T)

Spec == Init /\ [][Next]_vars

\* The tick loop keeps running its schedules, and a unit that can run does:
\* the payload I/O completes, and a send goes through once the channel has
\* room. Nothing makes the application launch or the user answer a dialog.
TickLoop ==
    \/ ApplyCommands
    \/ \E c \in build(Plugin) : try_iter(c)

Fairness ==
    /\ WF_vars(TickLoop)
    /\ \A i \in 1..MaxLaunch : WF_vars(PayloadIo(i))
    /\ \A i \in 1..MaxLaunch : WF_vars(Deliver(i))

SpecFair == Spec /\ Fairness

\* The application ends between two ticks while units are still running on
\* the task pool: the App and its World are dropped, and with them every
\* StreamSender and StreamReceiver resource and the messages still queued.
\* The units keep the senders they cloned.
AppExit ==
    /\ panic = "none"
    /\ phase = "Update"
    /\ app = "built"
    /\ app' = "exited"
    /\ phase' = "Exited"
    /\ registry' = {}
    /\ mailbox' = [c \in DOMAIN mailbox |-> <<>>]
    /\ UNCHANGED <<pollers, polling, units, accepted, received, events, panic>>
    /\ UNCHANGED <<plugin, resources, dialog, provider>>

NextExit == Next \/ AppExit

SpecExit == Init /\ [][NextExit]_vars

\* -------------------------------------------------------------------- setup

\* A with_*::<T>() call on the plugin: self.0.push(Box::new(..)).
Register(f, T) ==
    /\ app = "new"
    /\ panic = "none"
    /\ Len(plugin) < MaxIntents
    /\ plugin' = Append(plugin, <<f, T>>)
    /\ UNCHANGED <<runVars, app, resources, dialog, provider>>

\* App::add_plugins(plugin): Plugin::build asserts that a closure was
\* collected and runs the closures in order. Each closure replaces the
\* resources of its channels and adds its poller(s) to the First schedule;
\* a system added twice is in the schedule twice.
add_plugins ==
    /\ app = "new"
    /\ panic = "none"
    /\ IF build_assert(plugin)
        THEN /\ app' = "built"
             /\ registry' = build(plugin)
             /\ pollers' = Systems(plugin)
             /\ resources' = Resources(plugin, Len(plugin))
             /\ mailbox' = [c \in build(plugin) |-> <<>>]
             /\ accepted' = [c \in build(plugin) |-> <<>>]
             /\ received' = [c \in build(plugin) |-> <<>>]
             /\ events' = [s \in StreamsOf(build(plugin)) |-> <<>>]
             /\ UNCHANGED panic
        ELSE /\ panic' = "assert"
             /\ UNCHANGED <<app, registry, pollers, resources, mailbox, accepted,
                            received, events>>
    /\ UNCHANGED <<phase, polling, units, plugin, dialog, provider>>

\* An App without the plugin: FileDialogPlugin::new() and nothing added.
InitSetup ==
    /\ plugin = new
    /\ app = "new"
    /\ registry = {}
    /\ pollers = <<>>
    /\ resources = <<>>
    /\ mailbox = <<>>
    /\ accepted = <<>>
    /\ received = <<>>
    /\ events = <<>>
    /\ phase = "Update"
    /\ polling = 0
    /\ units = <<>>
    /\ panic = "none"
    /\ dialog = Moved
    /\ provider = NotOpened

NextSetup ==
    \/ \E f \in Families, T \in Kinds : Register(f, T)
    \/ add_plugins

SpecSetup == InitSetup /\ [][NextSetup]_vars

\* ----------------------------------------------------------- dialog builder

\* What the application passes to the builder's setters.
FilterArgs == {<<"Text", <<"txt">>>>, <<"Image", <<"png", "jpg">>>>}

Paths == {"", "/home"}

FileNames == {"a.txt", "b.txt"}

Titles == {"Open", "Save as"}

\* extensions.iter().map(|e| e.to_string()).collect()
to_strings(extensions) == [n \in DOMAIN extensions |-> extensions[n]]

\* path.to_str().map(|p| p.is_empty()).unwrap_or(false)
is_empty(path) == path = ""

add_filter(name, extensions) ==
    /\ dialog # Moved
    /\ Len(dialog.filters) < MaxFilters
    /\ dialog' = [dialog EXCEPT
            !.filters = Append(@, <<name, to_strings(extensions)>>),
            !.last = <<"add_filter", name>>]
    /\ UNCHANGED <<runVars, plugin, app, resources, provider>>

\* (mutant) the empty path is stored like any other path.
set_directory_keeps_empty(path) ==
    /\ dialog # Moved
    /\ dialog' = [dialog EXCEPT
            !.starting_directory = SetTo(path),
            !.last = <<"set_directory", path>>]
    /\ UNCHANGED <<runVars, plugin, app, resources, provider>>

set_directory(path) ==
    /\ dialog # Moved
    /\ dialog' = [dialog EXCEPT
            !.starting_directory = IF is_empty(path) THEN Unset ELSE SetTo(path),
            !.last = <<"set_directory", path>>]
    /\ UNCHANGED <<runVars, plugin, app, resources, provider>>

set_file_name(file_name) ==
    /\ dialog # Moved
    /\ dialog' = [dialog EXCEPT
            !.file_name = SetTo(file_name),
            !.last = <<"set_file_name", file_name>>]
    /\ UNCHANGED <<runVars, plugin, app, resources, provider>>

\* (mutant) a copy of set_file_name with the field not renamed: the title
\* is stored as the file name.
set_title_into_file_name(title) ==
    /\ dialog # Moved
    /\ dialog' = [dialog EXCEPT
            !.file_name = SetTo(title),
            !.last = <<"set_title", title>>]
    /\ UNCHANGED <<runVars, plugin, app, resources, provider>>

set_title(title) ==
    /\ dialog # Moved
    /\ dialog' = [dialog EXCEPT
            !.title = SetTo(title),
            !.last = <<"set_title", title>>]
    /\ UNCHANGED <<runVars, plugin, app, resources, provider>>

\* The configuration part of a builder.
ConfigOf(d) ==
    [filters |-> d.filters, starting_directory |-> d.starting_directory,
     file_name |-> d.file_name, title |-> d.title]

\* self.dialog of the pick calls: the AsyncFileDialog the builder carries,
\* holding what the setters accumulated.
self_dialog(d) == ConfigOf(d)

\* The native dialog each terminal call opens:
\*   lib.rs   AsyncFileDialog::new().save_file() / .pick_file() / .pick_files()
\*   pick.rs  self.dialog.pick_folder() / self.dialog.pick_file() for the
\*            singular picks, AsyncFileDialog::new().pick_folders() /
\*            AsyncFileDialog::new().pick_files() for the multi-select picks.
OpenedWith(op, d) ==
    IF op \in {"pick_directory_path", "pick_file_path"}
        THEN self_dialog(d)
        ELSE AsyncFileDialog_new

\* A terminal call on the builder: the builder is consumed and the unit
\* opens its native dialog. The field builder is history.
Terminal(op) ==
    /\ dialog # Moved
    /\ provider' = [op |-> op, builder |-> dialog, config |-> OpenedWith(op, dialog)]
    /\ dialog' = Moved
    /\ UNCHANGED <<runVars, plugin, app, resources>>

\* commands.dialog() in a system of the built application.
InitBuilder ==
    /\ registry = build(Plugin)
    /\ phase = "Update"
    /\ pollers = Systems(Plugin)
    /\ polling = 0
    /\ units = <<>>
    /\ mailbox = [c \in build(Plugin) |-> <<>>]
    /\ accepted = [c \in build(Plugin) |-> <<>>]
    /\ received = [c \in build(Plugin) |-> <<>>]
    /\ events = [s \in StreamsOf(build(Plugin)) |-> <<>>]
    /\ panic = "none"
    /\ plugin = Plugin
    /\ app = "built"
    /\ resources = Resources(Plugin, Len(Plugin))
    /\ dialog = NewDialog
    /\ provider = NotOpened

NextBuilder ==
    \/ \E f \in FilterArgs : add_filter(f[1], f[2])
    \/ \E path \in Paths : set_directory(path)
    \/ \E file_name \in FileNames : set_file_name(file_name)
    \/ \E title \in Titles : set_title(title)
    \/ \E op \in Ops : Terminal(op)

SpecBuilder == InitBuilder /\ [][NextBuilder]_vars

\* ------------------------------------------------- reading the run's state

Launched == DOMAIN units

\* The positions <<stream, n>> of the events of launch i among the streams
\* of the given event types.
EventsOf(i, types) ==
    UNION {{<<s, n>> : n \in {m \in DOMAIN events[s] : events[s][m].launch = i}} :
            s \in {t \in DOMAIN events : t[1] \in types}}

CompletionCount(i) == Cardinality(EventsOf(i, CompletionTypes))

CancellationCount(i) == Cardinality(EventsOf(i, CancellationTypes))

\* The dialog of launch i has returned.
Resolved(i) == units[i].pc \in {"io", "send", "done"}

Dismissed(i) == Resolved(i) /\ ~units[i].answer.some

Selected(i) == Resolved(i) /\ units[i].answer.some

\* The message of launch i is in some channel.
InMailbox(i) ==
    \E c \in DOMAIN mailbox : \E n \in DOMAIN mailbox[c] : mailbox[c][n].launch = i

\* The unit of launch i has sent its message and a poller has received it.
Drained(i) == units[i].pc = "done" /\ ~InMailbox(i)

\* How often launch i occurs in a sequence of launches.
Occurrences(seq, i) == Cardinality({n \in DOMAIN seq : seq[n] = i})

\* The streams of the channel that launch i is made on.
CompletionStream(i) == <<CompletionOf(ChannelOf(units[i].op)), units[i].kind>>

CancellationStream(i) == <<CancellationOf(ChannelOf(units[i].op)), units[i].kind>>

\* ------------------------------------------------------------------ claims

\* C1: a launch of any of the seven terminal calls whose dialog was
\* dismissed has no completion event in any stream, has no cancellation
\* event before its message is received and exactly one afterwards, and that
\* event is in the cancellation stream of the launch's own channel and kind.
C1_DismissalYieldsOneCancellation ==
    \A i \in Launched :
        Dismissed(i) =>
            /\ CompletionCount(i) = 0
            /\ CancellationCount(i) = (IF Drained(i) THEN 1 ELSE 0)
            /\ \A e \in EventsOf(i, CancellationTypes) : e[1] = CancellationStream(i)

\* Two dismissed launches of different terminal calls, one of them
\* multi-select, both received.
C1_Witness ==
    \E i, j \in Launched :
        /\ units[i].op \in MultiOps /\ units[j].op \notin MultiOps
        /\ Dismissed(i) /\ Drained(i) /\ CancellationCount(i) = 1
        /\ Dismissed(j) /\ Drained(j) /\ CancellationCount(j) = 1

\* C2: a multi-select launch whose provider returned k targets has no
\* completion event until a poller receives its message and exactly k from
\* then on (and never a cancellation event); the k events are written by one
\* step of one poller, inside the First schedule of one tick: no step writes
\* fewer than k of them.
C2_BatchInOnePollStep ==
    /\ [](\A i \in Launched :
            (units[i].op \in MultiOps /\ Selected(i)) =>
                /\ CompletionCount(i) =
                        (IF Drained(i) THEN Len(units[i].answer.files) ELSE 0)
                /\ CancellationCount(i) = 0)
    /\ [][\A i \in Launched :
            (units[i].op \in MultiOps /\ CompletionCount(i)' # CompletionCount(i)) =>
                /\ phase = "First" /\ phase' = "First" /\ polling' = polling
                /\ pollers[polling] = units[i].sender
                /\ CompletionCount(i) = 0
                /\ CompletionCount(i)' = Len(units[i].answer.files)]_vars

\* A multi-select load and a multi-select pick of two targets each, both
\* received, with two completion events each.
C2_Witness ==
    \E i, j \in Launched :
        /\ units[i].op = "load_multiple_files"
        /\ units[j].op \in {"pick_multiple_directory_paths", "pick_multiple_file_paths"}
        /\ Len(units[i].answer.files) = 2 /\ Drained(i) /\ CompletionCount(i) = 2
        /\ Len(units[j].answer.files) = 2 /\ Drained(j) /\ CompletionCount(j) = 2

\* C3: a multi-select launch whose message has been received and that has
\* no completion event has a cancellation event, and no channel ever holds
\* a Batch of zero items.
C3_NoEmptyBatch ==
    /\ \A i \in Launched :
            (units[i].op \in MultiOps /\ Drained(i) /\ CompletionCount(i) = 0) =>
                CancellationCount(i) = 1
    /\ \A c \in DOMAIN mailbox : \A n \in DOMAIN mailbox[c] :
            mailbox[c][n].tag = "Batch" => mailbox[c][n].items # <<>>

\* C4: every event of a stream of kind T, and every message of a channel of
\* kind T, comes from a launch made with kind T and with a terminal call of
\* that stream's channel: results never cross kinds.
C4_NoCrossKindDelivery ==
    /\ \A s \in DOMAIN events : \A n \in DOMAIN events[s] :
          LET i == events[s][n].launch IN
            /\ i \in Launched
            /\ units[i].kind = s[2]
            /\ s \in {CompletionStream(i), CancellationStream(i)}
    /\ \A c \in DOMAIN mailbox : \A n \in DOMAIN mailbox[c] :
          LET i == mailbox[c][n].launch IN
            /\ i \in Launched
            /\ StreamSender(units[i].op, units[i].kind) = c

\* Two saves, of kinds A and B, in flight together: the first has surfaced
\* on the stream of kind A while the message of the second is still in the
\* channel of kind B.
C4_Witness ==
    /\ Len(units) = 2
    /\ units[1].op = "save_file" /\ units[1].kind = "A"
    /\ units[2].op = "save_file" /\ units[2].kind = "B"
    /\ Len(events[<<"DialogFileSaved", "A">>]) = 1
    /\ Len(mailbox[<<"Save", "B">>]) = 1

\* The kind of launch i was never registered for the channel of its call.
Unregistered(i) == StreamSender(units[i].op, units[i].kind) \notin registry

\* C5 as stated: a terminal call of an unregistered kind fails before it
\* returns, so no call of an unregistered kind ever returns and leaves a
\* command behind.
C5_FailsAtCallSite ==
    \A i \in Launched : ~Unregistered(i)

\* C5 as amended: the terminal call of an unregistered kind returns and
\* leaves a queued command; the configuration error is the panic of that
\* command when the commands of the same schedule are applied. The command
\* never survives into the First schedule of a later tick, no unit is
\* spawned for it, nothing is sent or written for it, and the panic is
\* raised by such a command only.
C5_FailsAtCommandApplication ==
    /\ \A i \in Launched :
          Unregistered(i) =>
            /\ units[i].pc \in {"queued", "panicked"}
            /\ units[i].pc = "queued" => phase = "Update"
            /\ ~InMailbox(i)
            /\ CompletionCount(i) = 0 /\ CancellationCount(i) = 0
    /\ \A i \in Launched : units[i].pc = "panicked" => Unregistered(i)
    /\ phase = "First" => \A i \in Launched : units[i].pc # "queued"
    /\ panic = "expect" <=> \E i \in Launched : units[i].pc = "panicked"

\* The command of a load of the unregistered kind B has panicked while an
\* earlier launch of a registered kind is in flight.
C5_Witness ==
    /\ panic = "expect"
    /\ Len(units) = 2
    /\ units[1].pc \in {"opening", "io", "send", "done"}
    /\ units[2].op = "load_file" /\ units[2].kind = "B" /\ units[2].pc = "panicked"

\* C6: a unit has sent nothing until it finishes and has sent exactly one
\* message when it has finished, on the selection path and on the dismissal
\* path alike; the message went into the channel of the unit's own terminal
\* call and kind; it is Canceled exactly when the dialog was dismissed, a
\* Canceled message carries no item and a Single exactly one; and every
\* message in a channel is the message of the unit that sent it.
C6_ExactlyOneTaggedResult ==
    /\ \A i \in Launched :
          /\ Cardinality(Sends(i)) = (IF units[i].pc = "done" THEN 1 ELSE 0)
          /\ \A p \in Sends(i) : p[1] = StreamSender(units[i].op, units[i].kind)
          /\ units[i].pc \in {"send", "done"} =>
                /\ units[i].msg.tag \in {"Single", "Batch", "Canceled"}
                /\ units[i].msg.tag = "Canceled" <=> Dismissed(i)
                /\ units[i].msg.tag = "Canceled" => units[i].msg.items = <<>>
                /\ units[i].msg.tag = "Single" => Len(units[i].msg.items) = 1
                /\ units[i].msg.tag = "Batch" <=> (Selected(i) /\ units[i].op \in MultiOps)
    /\ \A c \in DOMAIN mailbox : \A n \in DOMAIN mailbox[c] :
          mailbox[c][n] = units[mailbox[c][n].launch].msg

\* Two units of one channel have both finished, one after a dismissal and
\* one after a selection: the channel accepted one message from each.
C6_Witness ==
    \E c \in DOMAIN accepted :
        /\ Len(accepted[c]) = 2
        /\ Dismissed(accepted[c][1]) /\ Selected(accepted[c][2])
        /\ accepted[c][1] # accepted[c][2]
        /\ units[accepted[c][1]].pc = "done" /\ units[accepted[c][2]].pc = "done"

\* C7: a save whose target was chosen has no cancellation event, has no
\* completion event before its message is received and exactly one
\* afterwards; that event is in the DialogFileSaved stream of the launch's
\* kind and carries the file name of the chosen target and the outcome the
\* write returned, a failure included.
C7_SaveOutcomeInCompletionEvent ==
    \A i \in Launched :
        (units[i].op = "save_file" /\ Selected(i)) =>
            /\ CancellationCount(i) = 0
            /\ CompletionCount(i) = (IF Drained(i) THEN 1 ELSE 0)
            /\ \A e \in EventsOf(i, CompletionTypes) :
                  /\ e[1] = <<"DialogFileSaved", units[i].kind>>
                  /\ events[e[1]][e[2]].name = FileName(units[i].answer.files[1])
                  /\ events[e[1]][e[2]].payload = units[i].io
                  /\ units[i].io \in WriteResults

\* A save to /y/b.txt whose write failed has surfaced as one completion
\* event {file_name: "b.txt", result: Err}.
C7_Witness ==
    \E i \in Launched :
        /\ units[i].op = "save_file" /\ Drained(i)
        /\ units[i].answer = Some(<<"/y/b.txt">>) /\ units[i].io = "Err"
        /\ events[<<"DialogFileSaved", units[i].kind>>] = <<Item(i, "b.txt", "Err")>>
        /\ CancellationCount(i) = 0

\* C8: whenever the tick loop is in the First schedule, the step of the
\* poller whose turn it is can be taken at once, whatever the units are
\* doing (dialogs open, payload I/O under way, senders waiting for room);
\* events are written only by a poller step that finds a message, so a
\* poller that finds its channel empty writes none; no step of the First
\* schedule raises a panic; and the First schedule always comes to its end.
C8_PollNeverWaits ==
    /\ []((phase = "First" /\ panic = "none") =>
            /\ polling \in DOMAIN pollers
            /\ ENABLED try_iter(pollers[polling]))
    /\ [][/\ events' # events =>
                (phase = "First" /\ mailbox[pollers[polling]] # <<>>)
          /\ phase = "First" => panic' = "none"]_vars
    /\ (phase = "First") ~> (phase = "Update")

\* In the First schedule, after earlier pollers have run, the poller whose
\* turn it is finds its channel empty while a unit waits to send into
\* another channel that is full.
C8_Witness ==
    /\ phase = "First"
    /\ polling >= 2
    /\ mailbox[pollers[polling]] = <<>>
    /\ \E i \in Launched : units[i].pc = "send" /\ ~CanSend(units[i].sender)

\* The events of launch i are all written: its message was sent and
\* received, and the streams hold one cancellation event for a dismissal,
\* or as many completion events as the message has items.
Emitted(i) ==
    /\ Drained(i)
    /\ IF Dismissed(i)
        THEN CancellationCount(i) = 1 /\ CompletionCount(i) = 0
        ELSE CompletionCount(i) = Len(units[i].msg.items) /\ CancellationCount(i) = 0

\* C9: with the tick loop running and the units' I/O and send steps fair,
\* every launch whose dialog has returned (selection or dismissal) has all
\* its events written at some later point, unless a configuration error has
\* brought the application down; no message stays in a channel and no unit
\* stays in its send forever, also with two units of one channel.
C9_ResolvedEventuallyEmitted ==
    \A i \in 1..MaxLaunch :
        (i \in Launched /\ Resolved(i)) ~>
            (panic # "none" \/ (i \in Launched /\ Emitted(i)))

\* Two launches of one channel have both surfaced, the later launch first:
\* the earlier one resolved while the channel was taken or before its turn.
C9_Witness ==
    \E c \in DOMAIN received :
        /\ received[c] = <<2, 1>>
        /\ Emitted(1) /\ Emitted(2)

\* The position of launch i in a sequence of launches (0 if absent).
PositionIn(seq, i) ==
    IF \E n \in DOMAIN seq : seq[n] = i
        THEN CHOOSE n \in DOMAIN seq : seq[n] = i
        ELSE 0

\* C10: in every channel the messages are received in the order in which
\* their sends were accepted, none skipped and none lost (what was accepted
\* is what was received followed by what is still queued); events of two
\* launches of one channel lie in a stream in the order of acceptance; and
\* a poller ends its run only on finding its channel empty, so nothing that
\* was queued when it started is left behind.
C10_FifoAndFullDrain ==
    /\ [](\A c \in DOMAIN mailbox :
            accepted[c] =
                received[c] \o [n \in DOMAIN mailbox[c] |-> mailbox[c][n].launch])
    /\ [](\A s \in DOMAIN events : \A p, q \in DOMAIN events[s] :
            LET a == events[s][p].launch
                b == events[s][q].launch
            IN (p < q /\ a # b /\ units[a].sender = units[b].sender) =>
                    /\ PositionIn(accepted[units[a].sender], a) > 0
                    /\ PositionIn(accepted[units[a].sender], a)
                            < PositionIn(accepted[units[b].sender], b))
    /\ [][(phase = "First" /\ polling' # polling) =>
            (mailbox[pollers[polling]] = <<>> /\ mailbox' = mailbox)]_vars

\* Two launches of one channel completed concurrently, the second launch
\* accepted first: their events lie in the stream in that order.
C10_Witness ==
    \E s \in DOMAIN events :
        /\ Len(events[s]) = 2
        /\ events[s][1].launch = 2 /\ events[s][2].launch = 1
        /\ units[1].sender = units[2].sender
        /\ accepted[units[1].sender] = <<2, 1>>

\* Launches i and j were made with the same terminal call and kind.
SameCall(i, j) == i # j /\ units[i].op = units[j].op /\ units[i].kind = units[j].kind

\* C11: a launch is accepted whatever launches are in flight (while the
\* application's systems run, any terminal call of any kind can be made, also
\* one equal to a launch that is still unresolved), and it replaces nothing:
\* the launches made earlier stay, with their call and kind. Two launches of
\* the same call and kind are resolved on their own: each one's events depend
\* on its own answer only (one cancellation for a dismissal, the completion
\* events of its own message for a selection), no step writes events of both,
\* and with the tick loop running a dismissed L1 and a selected L2 both get
\* all their events, in whichever order the dialogs returned.
C11_ConcurrentSameKindIndependent ==
    /\ []((panic = "none" /\ phase = "Update" /\ Len(units) < MaxLaunch) =>
            \A op \in Ops, T \in Kinds : ENABLED Launch(op, T))
    /\ [][\A i \in Launched :
            /\ i \in Launched'
            /\ units'[i].op = units[i].op /\ units'[i].kind = units[i].kind
            /\ units[i].pc # "queued" => units'[i].sender = units[i].sender]_vars
    /\ [](\A i, j \in Launched :
            (SameCall(i, j) /\ Dismissed(i) /\ Selected(j)) =>
                /\ CompletionCount(i) = 0
                /\ CancellationCount(i) = (IF Drained(i) THEN 1 ELSE 0)
                /\ CancellationCount(j) = 0
                /\ CompletionCount(j) =
                        (IF Drained(j) THEN Len(units[j].msg.items) ELSE 0))
    /\ [][\A i, j \in Launched :
            (i # j /\ EventsOf(i, CompletionTypes \cup CancellationTypes)' #
                        EventsOf(i, CompletionTypes \cup CancellationTypes)) =>
                EventsOf(j, CompletionTypes \cup CancellationTypes)' =
                    EventsOf(j, CompletionTypes \cup CancellationTypes)]_vars
    /\ \A i, j \in 1..MaxLaunch :
          (i \in Launched /\ j \in Launched /\ SameCall(i, j)
                /\ Dismissed(i) /\ Selected(j)) ~>
            (panic # "none" \/
                (i \in Launched /\ j \in Launched /\ Emitted(i) /\ Emitted(j)))

\* Two loads of kind A in flight together; the first launch was dismissed,
\* the second selected a file and was received first: both have their
\* events, the first its one cancellation.
C11_Witness ==
    /\ Len(units) = 2
    /\ units[1].op = "load_file" /\ units[2].op = "load_file"
    /\ units[1].kind = "A" /\ units[2].kind = "A"
    /\ Dismissed(1) /\ Selected(2)
    /\ received[<<"Load", "A">>] = <<2, 1>>
    /\ CancellationCount(1) = 1 /\ CompletionCount(2) = 1

\* C12: whenever save_file, load_file or load_multiple_files has consumed a
\* builder, the native dialog it opened was given exactly the filters that
\* were added to the builder, in the order of the add_filter calls.
C12_FiltersReachProvider ==
    provider.op \in {"save_file", "load_file", "load_multiple_files"} =>
        provider.config.filters = provider.builder.filters

\* How many systems of the First schedule poll channel c.
PollerCount(c) == Cardinality({n \in DOMAIN pollers : pollers[n] = c})

\* C13: once the plugin is built, whatever with_* calls were made (the same
\* kind twice for one family included), every registered channel has one
\* mailbox and at most one poller in the First schedule, and the sender
\* resource that launches clone is an end of the same channel as the
\* receiver resource that the poller drains.
C13_OneMailboxOnePoller ==
    app = "built" =>
        \A c \in registry :
            /\ SenderOf(c) \in DOMAIN resources /\ ReceiverOf(c) \in DOMAIN resources
            /\ resources[SenderOf(c)] = resources[ReceiverOf(c)]
            /\ c \in DOMAIN mailbox
            /\ PollerCount(c) <= 1

\* C14: a unit whose channel has lost its receiver when it sends does not
\* finish as if it had delivered: its send step is taken at once (no waiting
\* for room) and ends in the panic of unwrap, and nothing is recorded as
\* accepted; a unit ends in that panic only when the receiver is gone; and
\* while the receiver exists the send step ends with the message accepted.
\* A finished unit has always delivered exactly one message.
C14_SendFailsOnlyWithoutMailbox ==
    /\ [](\A i \in Launched :
            /\ units[i].pc = "unwrap" =>
                    (~Connected(units[i].sender) /\ Sends(i) = {})
            /\ units[i].pc = "done" => Cardinality(Sends(i)) = 1
            /\ (units[i].pc = "send" /\ ~Connected(units[i].sender)) =>
                    ENABLED Deliver(i))
    /\ [][\A i \in Launched :
            (units[i].pc = "send" /\ units'[i].pc # "send") =>
                IF Connected(units[i].sender)
                    THEN /\ units'[i].pc = "done"
                         /\ accepted'[units[i].sender] =
                                Append(accepted[units[i].sender], i)
                    ELSE /\ units'[i].pc = "unwrap"
                         /\ accepted' = accepted /\ mailbox' = mailbox]_vars

\* The application ended while two units were running; one had delivered
\* before the end, the other one's send failed after it.
C14_Witness ==
    /\ app = "exited"
    /\ \E i, j \in Launched :
        /\ units[i].pc = "done" /\ Cardinality(Sends(i)) = 1
        /\ units[j].pc = "unwrap" /\ units[j].answer.some

\* C15 as stated: all events of one stream come from launches of one
\* terminal call, the singular and the multi-select call of a family counted
\* as different: no stream holds events of load_file and of
\* load_multiple_files (or of a singular and a multi-select pick).
C15_SingularAndMultiOnSeparateStreams ==
    \A s \in DOMAIN events : \A p, q \in DOMAIN events[s] :
        units[events[s][p].launch].op = units[events[s][q].launch].op

\* C15 as amended: every event type is added by exactly one registration
\* (save, load, pick-directory, pick-file), and every event of a stream
\* <<type, T>> comes from a launch of kind T whose terminal call belongs to
\* the registration that added the type, on a completion stream from a
\* selection and on a cancellation stream from a dismissal; the singular and
\* the multi-select call of one registration write the same two streams.
C15_OneStreamPerKindRegistrationOutcome ==
    /\ \A f, g \in Families : f # g => EventsAdded(f) \cap EventsAdded(g) = {}
    /\ \A s \in DOMAIN events : \A n \in DOMAIN events[s] :
          LET i == events[s][n].launch IN
            /\ s[1] \in EventsAdded(FamilyOf(units[i].op))
            /\ s[2] = units[i].kind
            /\ s[1] \in CompletionTypes <=> Selected(i)
            /\ s[1] \in CancellationTypes <=> Dismissed(i)
    /\ \A i, j \in Launched :
          (FamilyOf(units[i].op) = FamilyOf(units[j].op)
                /\ units[i].kind = units[j].kind) =>
            /\ CompletionStream(i) = CompletionStream(j)
            /\ CancellationStream(i) = CancellationStream(j)

\* The DialogFileLoaded stream of kind A holds the event of a load_file
\* launch and the events of a load_multiple_files launch.
C15_Witness ==
    \E i, j \in Launched :
        /\ units[i].op = "load_file" /\ units[j].op = "load_multiple_files"
        /\ Drained(i) /\ Drained(j)
        /\ Len(events[<<"DialogFileLoaded", "A">>]) = 3
        /\ CompletionCount(i) = 1 /\ CompletionCount(j) = 2

C17_EmptyPathDistinctFromNeverSet ==
    \A path \in Paths :
        dialog.last = <<"set_directory", path>> =>
            IF path = ""
                THEN /\ dialog.starting_directory \notin {SetTo(q) : q \in Paths \ {""}}
                     /\ dialog.starting_directory # NewDialog.starting_directory
                ELSE dialog.starting_directory = SetTo(path)

\* C17 as amended: after set_directory with the empty path the hint is
\* None, the very value it has on a builder on which set_directory was never
\* called, whatever the hint was before; after set_directory with a
\* non-empty path the hint is that path; and the call changes no other part
\* of the configuration.
C17_EmptyPathClearsToNone ==
    /\ [](\A path \in Paths :
            dialog.last = <<"set_directory", path>> =>
                IF path = ""
                    THEN dialog.starting_directory = NewDialog.starting_directory
                    ELSE dialog.starting_directory = SetTo(path))
    /\ [][dialog'.last[1] = "set_directory" =>
            /\ dialog'.filters = dialog.filters
            /\ dialog'.file_name = dialog.file_name
            /\ dialog'.title = dialog.title]_vars
    /\ [][(dialog.starting_directory # Unset /\ dialog'.last = <<"set_directory", "">>)
            => dialog'.starting_directory = Unset]_vars

\* A builder with a filter and a title on which set_directory("") was the
\* latest call: it holds no hint.
C17_Witness ==
    /\ dialog.last = <<"set_directory", "">>
    /\ dialog.starting_directory = Unset
    /\ dialog.filters # <<>>
    /\ dialog.title # Unset

\* C18: every registered channel has its poller in the polling schedule;
\* within one run of that schedule the pollers take their turns one after
\* the other, from the first to the last, each ending on an empty channel,
\* so each runs once per tick; events are written only while the tick is in
\* a schedule that comes before the schedule of the application's systems,
\* and the schedule that follows the polling is that schedule of the same
\* tick; events once written stay in their stream. So what a tick's drain
\* emits is there when the consumers of that tick run.
C18_PollersRunBeforeConsumers ==
    /\ [](\A c \in registry : PollerCount(c) = 1)
    /\ [][events' # events =>
            /\ phase = PollSchedule /\ phase' = phase
            /\ PlaceOf(phase) < PlaceOf(ConsumerSchedule)]_vars
    /\ [][(phase # ConsumerSchedule /\ phase' # phase) =>
            /\ phase' = ConsumerSchedule
            /\ PlaceOf(phase) < PlaceOf(phase')
            /\ polling = Len(pollers) /\ mailbox[pollers[polling]] = <<>>]_vars
    /\ [][(phase = ConsumerSchedule /\ phase' # phase) =>
            (phase' = PollSchedule /\ polling' = 1)]_vars
    /\ [][(phase # ConsumerSchedule /\ phase' = phase) =>
            polling' \in {polling, polling + 1}]_vars
    /\ [][\A s \in DOMAIN events :
            /\ Len(events'[s]) >= Len(events[s])
            /\ SubSeq(events'[s], 1, Len(events[s])) = events[s]]_vars

\* The application's systems are running after a polling schedule in which
\* the pollers of two channels each received a message and wrote its events.
C18_Witness ==
    /\ phase = ConsumerSchedule
    /\ polling = 0
    /\ \E c, d \in registry :
        /\ c # d
        /\ Len(received[c]) = 1 /\ Len(received[d]) = 1
        /\ Emitted(received[c][1]) /\ Emitted(received[d][1])
        /\ accepted[c] = received[c] /\ accepted[d] = received[d]

\* C19: a unit whose dialog was dismissed has invoked no write and no read:
\* the step of its dialog returning takes it from opening straight to its
\* send with the Canceled message built, for save_file, load_file and
\* load_multiple_files alike; a unit is in its payload I/O, or has a payload
\* I/O outcome, only after a selection, and the outcome is set by the I/O
\* step only.
C19_NoPayloadIoOnCancellation ==
    /\ [](\A i \in Launched :
            /\ Dismissed(i) =>
                /\ units[i].pc \in {"send", "done"}
                /\ units[i].io = "none"
                /\ units[i].msg = Canceled(i)
            /\ (units[i].pc = "io" \/ units[i].io # "none") =>
                (Selected(i) /\ units[i].op \in IoOps))
    /\ [][\A i \in Launched :
            /\ (units[i].pc = "opening" /\ units'[i].pc # "opening"
                    /\ ~units'[i].answer.some) =>
                (units'[i].pc = "send" /\ units'[i].msg = Canceled(i)
                    /\ units'[i].io = "none")
            /\ units'[i].io # units[i].io =>
                (units[i].pc = "io" /\ units[i].answer.some)]_vars

\* A dismissed save and a dismissed load have both delivered Canceled with
\* no payload I/O; nothing else ran.
C19_Witness ==
    \E i, j \in Launched :
        /\ units[i].op = "save_file" /\ units[j].op \in {"load_file", "load_multiple_files"}
        /\ Dismissed(i) /\ Dismissed(j)
        /\ units[i].pc = "done" /\ units[j].pc = "done"
        /\ units[i].io = "none" /\ units[j].io = "none"

\* The number of events a message stands for: 1 for Canceled, 1 for Single,
\* k for a Batch of k.
Implied(msg) == IF msg.tag = "Canceled" THEN 1 ELSE Len(msg.items)

\* The message of launch i has been received by a poller.
Received(i) == \E c \in DOMAIN received : Occurrences(received[c], i) > 0

\* C20: a message is received at most once (no launch occurs twice among the
\* received of a channel, and nothing received is still in the channel); the
\* step that writes the events of a message takes that message out of its
\* channel; so over the whole run a launch has no event before its message
\* is received and from then on exactly the events its message stands for
\* (1 for Single, k for a Batch of k, 1 for Canceled), in every later tick
\* too, and every event in a stream is the event of such a launch.
C20_EachResultEmittedOnce ==
    /\ [](\A c \in DOMAIN received :
            /\ \A i \in Launched : Occurrences(received[c], i) <= 1
            /\ \A n \in DOMAIN mailbox[c] :
                    Occurrences(received[c], mailbox[c][n].launch) = 0)
    /\ [](\A i \in Launched :
            CompletionCount(i) + CancellationCount(i) =
                (IF Received(i) THEN Implied(units[i].msg) ELSE 0))
    /\ [](\A s \in DOMAIN events : \A n \in DOMAIN events[s] :
            events[s][n].launch \in Launched /\ Received(events[s][n].launch))
    /\ [][\A c \in DOMAIN received :
            (events' # events /\ pollers[polling] = c) =>
                /\ mailbox[c] # <<>>
                /\ mailbox'[c] = Tail(mailbox[c])
                /\ received'[c] = Append(received[c], Head(mailbox[c]).launch)]_vars

\* Two launches of load_multiple_files were received one after the other
\* through their channel of capacity one, a Batch of two and a Canceled:
\* three events in all, and the application's systems are running again.
C20_Witness ==
    /\ phase = ConsumerSchedule
    /\ Len(received[<<"LoadMultiple", "A">>]) = 2
    /\ mailbox[<<"LoadMultiple", "A">>] = <<>>
    /\ Len(events[<<"DialogFileLoaded", "A">>]) = 2
    /\ Len(events[<<"DialogFileLoadCanceled", "A">>]) = 1
    /\ units[1].pc = "done" /\ units[2].pc = "done"

\* C21: a launch whose dialog has not returned has no message in any channel
\* and no event in any stream, however many ticks pass; only the step of its
\* own dialog returning ends that, and that step writes no event; every
\* cancellation event is the event of a launch of the stream's kind and
\* registration whose provider returned None; and a terminal call made by
\* the application writes no event and no message.
C21_NoEventWhileDialogOpen ==
    /\ [](\A i \in Launched :
            units[i].pc \in {"queued", "opening"} =>
                /\ CompletionCount(i) = 0 /\ CancellationCount(i) = 0
                /\ ~InMailbox(i) /\ Sends(i) = {})
    /\ [](\A s \in DOMAIN events : \A n \in DOMAIN events[s] :
            s[1] \in CancellationTypes =>
                LET i == events[s][n].launch IN
                    /\ i \in Launched
                    /\ units[i].answer = None /\ units[i].pc = "done"
                    /\ s = CancellationStream(i))
    /\ [][\A i \in Launched :
            (units[i].pc = "opening" /\ units'[i].pc # "opening") =>
                /\ units'[i].pc \in {"io", "send"}
                /\ events' = events /\ mailbox' = mailbox
                /\ phase' = phase /\ polling' = polling]_vars
    /\ [][Len(units') # Len(units) =>
            (events' = events /\ mailbox' = mailbox)]_vars

\* The dialog of the first launch is still open after a later launch on the
\* same channel was made, answered, delivered and emitted: ticks have passed
\* and the first launch has no event.
C21_Witness ==
    /\ Len(units) = 2
    /\ units[1].pc = "opening"
    /\ units[1].sender = units[2].sender
    /\ Emitted(2)
    /\ CompletionCount(1) = 0 /\ CancellationCount(1) = 0
    /\ phase = ConsumerSchedule

\* The terminal calls of pick.rs.
PickOps == {"pick_directory_path", "pick_multiple_directory_paths",
            "pick_file_path", "pick_multiple_file_paths"}

\* C22: whichever pick call has consumed a builder, the multi-select calls
\* included, the native dialog was opened with the configuration the builder
\* had accumulated (filters, starting directory, file name, title); and a
\* multi-select pick opens its dialog with the configuration the singular
\* pick of the same family would open it with for that builder. (The calls
\* of lib.rs are the subject of C12.)
C22_ProviderGetsBuilderConfiguration ==
    /\ provider.op \in PickOps => provider.config = ConfigOf(provider.builder)
    /\ provider.op = "pick_multiple_directory_paths" =>
            provider.config = OpenedWith("pick_directory_path", provider.builder)
    /\ provider.op = "pick_multiple_file_paths" =>
            provider.config = OpenedWith("pick_file_path", provider.builder)

\* The events of launch i in stream s, in the order they lie in the stream.
StreamEventsOf(s, i) == SelectSeq(events[s], LAMBDA e : e.launch = i)

\* C23: once the message of a load_file launch whose file f was chosen has
\* been received, the DialogFileLoaded stream of its kind holds exactly one
\* event of the launch, with the name of f and the bytes of f; once the
\* message of a load_multiple_files launch with chosen files f1..fk has been
\* received, that stream holds exactly k events of the launch, the n-th with
\* the name and the bytes of fn; and the launch has no event anywhere else.
C23_LoadEventsCarryNameAndBytes ==
    \A i \in Launched :
        (units[i].op \in {"load_file", "load_multiple_files"}
                /\ Selected(i) /\ Drained(i)) =>
            LET files == units[i].answer.files
                s == <<"DialogFileLoaded", units[i].kind>>
            IN /\ units[i].op = "load_file" => Len(files) = 1
               /\ StreamEventsOf(s, i) =
                    [n \in DOMAIN files |->
                        Item(i, FileName(files[n]), ReadFile(files[n]))]
               /\ CompletionCount(i) = Len(files)
               /\ CancellationCount(i) = 0

\* A load of /x/a.txt and a multi-select load of /y/b.txt, /x/a.txt (in that
\* order) have both been received: the stream holds the three events.
C23_Witness ==
    \E i, j \in Launched :
        /\ units[i].op = "load_file" /\ units[i].answer = Some(<<"/x/a.txt">>)
        /\ units[j].op = "load_multiple_files"
        /\ units[j].answer = Some(<<"/y/b.txt", "/x/a.txt">>)
        /\ Drained(i) /\ Drained(j)
        /\ StreamEventsOf(<<"DialogFileLoaded", "A">>, i) =
                <<Item(i, "a.txt", "bytes-a")>>
        /\ StreamEventsOf(<<"DialogFileLoaded", "A">>, j) =
                <<Item(j, "b.txt", "bytes-b"), Item(j, "a.txt", "bytes-a")>>

\* C24: after set_file_name(v) the file name is v and after set_title(v) the
\* title is v, whatever was set before; the file name changes only by
\* set_file_name and the title only by set_title (so the value held is that
\* of the last call of that setter); add_filter keeps the filters added
\* before; and each of add_filter, set_directory, set_file_name, set_title
\* leaves the three other fields of the configuration as they were.
C24_SettersLastWriteWinsAndFrame ==
    /\ [](\A v \in FileNames :
            dialog.last = <<"set_file_name", v>> => dialog.file_name = SetTo(v))
    /\ [](\A v \in Titles :
            dialog.last = <<"set_title", v>> => dialog.title = SetTo(v))
    /\ [][dialog' # Moved =>
            /\ dialog'.file_name # dialog.file_name => dialog'.last[1] = "set_file_name"
            /\ dialog'.title # dialog.title => dialog'.last[1] = "set_title"
            /\ dialog'.starting_directory # dialog.starting_directory =>
                    dialog'.last[1] = "set_directory"
            /\ dialog'.filters # dialog.filters =>
                    /\ dialog'.last[1] = "add_filter"
                    /\ Len(dialog'.filters) = Len(dialog.filters) + 1
                    /\ SubSeq(dialog'.filters, 1, Len(dialog.filters)) = dialog.filters]_vars

\* A builder after set_file_name("a.txt"), later calls on the other fields,
\* set_file_name("b.txt") and set_title: it holds "b.txt" and everything
\* the other setters stored.
C24_Witness ==
    /\ dialog.last = <<"set_title", "Save as">>
    /\ dialog.title = SetTo("Save as")
    /\ dialog.file_name = SetTo("b.txt")
    /\ dialog.starting_directory = SetTo("/home")
    /\ Len(dialog.filters) = 2

\* C25: in the built App the closures collected by the with_* calls have
\* each run once and in call order: the First schedule holds the pollers of
\* the five registrations in the order of the calls (the two load pollers
\* side by side), every channel's sender and receiver resources are the two
\* ends of the channel made by the closure of its own registration, and the
\* registered channels are those of the registrations and no other. No
\* launch, command application, unit step or poller run changes the plugin,
\* the registered channels, the schedule or the channel resources.
C25_RegistryBuiltOnceThenReadOnly ==
    /\ [](/\ plugin = << <<"with_save_file", "A">>, <<"with_save_file", "B">>,
                         <<"with_load_file", "A">>, <<"with_pick_directory", "A">>,
                         <<"with_pick_file", "A">> >>
          /\ pollers = << <<"Save", "A">>, <<"Save", "B">>, <<"Load", "A">>,
                          <<"LoadMultiple", "A">>, <<"PickDirectory", "A">>,
                          <<"PickFile", "A">> >>
          /\ registry = {pollers[n] : n \in DOMAIN pollers}
          /\ DOMAIN resources = {SenderOf(c) : c \in registry}
                                    \cup {ReceiverOf(c) : c \in registry}
          /\ \A c \in registry :
                /\ resources[SenderOf(c)] = resources[ReceiverOf(c)]
                /\ \E n \in DOMAIN plugin :
                        /\ c \in RegisterIntent(plugin[n][1], plugin[n][2])
                        /\ resources[SenderOf(c)] = <<n, c[1]>>)
    /\ [][/\ registry' = registry
          /\ pollers' = pollers
          /\ resources' = resources
          /\ plugin' = plugin
          /\ DOMAIN mailbox' = DOMAIN mailbox
          /\ DOMAIN events' = DOMAIN events]_vars

\* Two launches have been made, the second of a kind that was never
\* registered, and their commands applied: the first unit was spawned, the
\* second command failed in expect, and the registry is still that of setup.
C25_Witness ==
    /\ Len(units) = 2
    /\ units[1].pc = "opening"
    /\ units[2].pc = "panicked"
    /\ StreamSender(units[2].op, units[2].kind) \notin registry
    /\ Cardinality(registry) = 6
    /\ Len(pollers) = 6

\* C26: no channel ever holds more than one message. A unit whose message
\* is ready while its channel holds one cannot take its send step; it stays
\* in the send with its message unchanged, and its send step becomes
\* possible as soon as the channel is empty, in the middle of a poller's run
\* too. A queued message leaves its channel only by being received by the
\* poller, whole and as it was sent; a send only ever fills an empty
\* channel. A poller that has received a message tries again before it ends
\* its run, so it also receives what a waiting unit sends meanwhile. With
\* the tick loop running, a waiting unit eventually delivers.
C26_MailboxHoldsAtMostOne ==
    /\ [](\A c \in DOMAIN mailbox : Len(mailbox[c]) <= 1)
    /\ [](\A i \in Launched :
            (units[i].pc = "send" /\ panic = "none") =>
                (ENABLED Deliver(i) <=> mailbox[units[i].sender] = <<>>))
    /\ [][\A i \in Launched :
            units[i].pc = "send" =>
                /\ units'[i].pc \in {"send", "done"}
                /\ units'[i].msg = units[i].msg
                /\ units'[i].pc = "done" =>
                        /\ mailbox[units[i].sender] = <<>>
                        /\ mailbox'[units[i].sender] = <<units[i].msg>>]_vars
    /\ [][\A c \in DOMAIN mailbox :
            (mailbox[c] # <<>> /\ mailbox'[c] # mailbox[c]) =>
                /\ mailbox'[c] = <<>>
                /\ received'[c] = Append(received[c], mailbox[c][1].launch)
                /\ events' = Match(events, c, mailbox[c][1])
                /\ polling' = polling /\ phase' = phase]_vars
    /\ \A i \in 1..MaxLaunch :
            (i \in Launched /\ units[i].pc = "send") ~>
                (panic # "none" \/ (i \in Launched /\ units[i].pc = "done"))

\* The poller of a channel is at its turn, the channel holds the result of
\* the first launch, and the second launch, of the same channel, has its
\* result ready and waits in its send: the poller receives the first, the
\* send goes through, and the same run can receive the second.
C26_Witness ==
    /\ phase = "First"
    /\ polling \in DOMAIN pollers
    /\ Len(units) = 2
    /\ units[1].sender = pollers[polling]
    /\ units[2].sender = pollers[polling]
    /\ units[1].pc = "done"
    /\ mailbox[pollers[polling]] = <<units[1].msg>>
    /\ units[2].pc = "send"
    /\ ~ENABLED Deliver(2)

\* The unit is at one of its .await points (the dialog future, the write or
\* read future): its task has returned Pending and the worker runs others.
AwaitPoint(i) == units[i].pc \in {"opening", "io"}

\* The unit is inside sender.send(msg), a synchronous call made from the
\* task's poll: until send returns, the task has not returned to the
\* executor and the worker thread of the task pool runs nothing else.
OccupiesWorker(i) == units[i].pc = "send"

\* The unit waits for room: it is in send and the channel is full.
WaitsForRoom(i) ==
    /\ units[i].pc = "send"
    /\ Connected(units[i].sender)
    /\ ~CanSend(units[i].sender)

\* C27: a unit that is waiting (for the user, for payload I/O, or for room
\* in its channel) does not occupy a worker of the task pool.
C27_WaitingUnitYieldsWorker ==
    \A i \in Launched :
        (AwaitPoint(i) \/ WaitsForRoom(i)) => ~OccupiesWorker(i)

\* C28: a wake-up is issued by units of the four pick calls only, and only
\* by a unit whose send has returned: when it is issued the unit's message,
\* the cancellation as well as the selection, is in its channel, and from
\* then on it is in the channel or has been received by the poller; while
\* a pick unit is still in its send (waiting for room included) its guard is
\* alive and no wake-up has gone out.
C28_WakeUpAfterResultInMailbox ==
    /\ [](\A i \in Launched :
            units[i].wake = "issued" =>
                /\ units[i].op \in PickOps
                /\ units[i].pc = "done"
                /\ PositionIn(accepted[units[i].sender], i) > 0
                /\ InMailbox(i) \/ Received(i))
    /\ [](\A i \in Launched :
            (units[i].op \in PickOps /\ units[i].pc = "send") =>
                units[i].wake = "armed")
    /\ [][\A i \in Launched :
            (units'[i].wake = "issued" /\ units[i].wake # "issued") =>
                /\ units[i].pc = "send"
                /\ mailbox'[units[i].sender] = <<units[i].msg>>
                /\ units[i].msg.tag = IF units[i].answer.some
                                        THEN (IF units[i].op \in MultiOps
                                                THEN "Batch" ELSE "Single")
                                        ELSE "Canceled"]_vars

\* Two picks have issued their wake-ups, one after a dismissal and one
\* after a selection, and the host has not ticked since: both results are
\* in their channels for the tick the wake-ups trigger.
C28_Witness ==
    /\ Len(units) = 2
    /\ units[1].op = "pick_directory_path" /\ units[2].op = "pick_multiple_file_paths"
    /\ units[1].wake = "issued" /\ units[2].wake = "issued"
    /\ Dismissed(1) /\ Selected(2)
    /\ InMailbox(1) /\ InMailbox(2)
    /\ phase = "First" /\ polling = 1

\* The two multi-select pick calls.
MultiPickOps == {"pick_multiple_directory_paths", "pick_multiple_file_paths"}

\* The completion and cancellation event types of the family of a pick call.
PickedType(op) ==
    IF op \in {"pick_directory_path", "pick_multiple_directory_paths"}
        THEN "DialogDirectoryPicked" ELSE "DialogFilePicked"

PickCanceledType(op) ==
    IF op \in {"pick_directory_path", "pick_multiple_directory_paths"}
        THEN "DialogDirectoryPickCanceled" ELSE "DialogFilePickCanceled"

\* C29: a multi-select pick whose dialog returned the paths p1..pk (k = 0
\* included) builds one batch of exactly k items, the n-th with path pn and
\* the user data, and that batch is what lies in the channel and, once the
\* poller has received it, what the launch has in the picked stream of its
\* kind, in provider order. Singular and multi-select picks of one family
\* and kind have the same sender, and their events lie in the same picked
\* stream and the same canceled stream.
C29_MultiPickBatchAndSharedStreams ==
    /\ \A i \in Launched :
        (units[i].op \in MultiPickOps /\ Selected(i)) =>
            LET files == units[i].answer.files
                batch == [n \in DOMAIN files |-> Item(i, files[n], UserData)]
            IN /\ units[i].msg = [tag |-> "Batch", items |-> batch, launch |-> i]
               /\ Len(units[i].msg.items) = Len(files)
               /\ InMailbox(i) => mailbox[units[i].sender] = <<units[i].msg>>
               /\ Drained(i) =>
                    /\ StreamEventsOf(<<PickedType(units[i].op), units[i].kind>>, i) = batch
                    /\ CompletionCount(i) = Len(files)
                    /\ CancellationCount(i) = 0
    /\ \A i, j \in Launched :
        (/\ units[i].op \in PickOps /\ units[j].op \in PickOps
         /\ PickedType(units[i].op) = PickedType(units[j].op)
         /\ units[i].kind = units[j].kind
         /\ units[i].sender # NoSender /\ units[j].sender # NoSender) =>
            units[i].sender = units[j].sender
    /\ \A i \in Launched :
        (units[i].op \in PickOps /\ Drained(i)) =>
            \A s \in DOMAIN events :
                StreamEventsOf(s, i) # <<>> =>
                    s = IF Selected(i)
                            THEN <<PickedType(units[i].op), units[i].kind>>
                            ELSE <<PickCanceledType(units[i].op), units[i].kind>>

\* A multi-select file pick of two paths and a singular file pick of the
\* same kind have both been received: the stream of picked files holds the
\* event of the singular pick and the two of the batch, in provider order.
C29_Witness ==
    /\ Len(units) = 2
    /\ units[1].op = "pick_multiple_file_paths" /\ units[2].op = "pick_file_path"
    /\ units[1].kind = units[2].kind
    /\ units[1].answer.files = <<"/y/b.txt", "/x/a.txt">>
    /\ Selected(2)
    /\ Drained(1) /\ Drained(2)
    /\ Len(events[<<"DialogFilePicked", units[1].kind>>]) = 3
    /\ StreamEventsOf(<<"DialogFilePicked", units[1].kind>>, 1) =
            << Item(1, "/y/b.txt", UserData), Item(1, "/x/a.txt", UserData) >>

\* The launches whose task has been spawned.
Spawned == {i \in Launched : units[i].pc \notin {"queued", "panicked"}}

\* C30: a terminal call adds one queued command and does nothing else: no
\* sender is looked up, no dialog is open and no channel, stream or
\* schedule position changes; a queued command has no unit (none of the
\* unit's steps can be taken for it). A command leaves the queue only when
\* the commands are applied in the Update schedule, and then it either
\* becomes exactly one unit with its sender (no record is added or removed
\* by that step) or fails in expect; so the units spawned are the launches
\* whose command has been applied without failing, one each.
C30_LaunchQueuesApplySpawns ==
    /\ [][Len(units') # Len(units) =>
            /\ Len(units') = Len(units) + 1
            /\ units'[Len(units')].pc = "queued"
            /\ units'[Len(units')].sender = NoSender
            /\ \A i \in DOMAIN units : units'[i] = units[i]
            /\ UNCHANGED <<registry, pollers, phase, polling, mailbox, accepted,
                           received, events, panic>>]_vars
    /\ [](\A i \in Launched :
            units[i].pc = "queued" =>
                /\ units[i].sender = NoSender
                /\ units[i].answer = None /\ units[i].msg = NoMessage
                /\ ~ENABLED DialogReturns(i)
                /\ ~ENABLED PayloadIo(i)
                /\ ~ENABLED Deliver(i))
    /\ [][\A i \in Launched :
            (units[i].pc = "queued" /\ units'[i].pc # "queued") =>
                /\ phase = "Update"
                /\ Len(units') = Len(units)
                /\ units'[i].pc \in {"opening", "panicked"}
                /\ units'[i].pc = "opening" =>
                        units'[i].sender = StreamSender(units[i].op, units[i].kind)
                /\ units'[i].pc = "panicked" => panic' = "expect"
                /\ \A j \in Launched :
                        (j < i /\ units[j].pc = "queued") => units'[j].pc = "opening"]_vars
    /\ [][\A i \in Launched : i \in Spawned => units'[i].pc # "queued"]_vars
    /\ [][Spawned' # Spawned =>
            /\ Spawned \subseteq Spawned'
            /\ Spawned' \ Spawned =
                    {i \in Launched : units[i].pc = "queued" /\ units'[i].pc = "opening"}
            /\ Len(units') = Len(units)]_vars

\* The first launch was applied, its unit has run and delivered; a second
\* terminal call has been made since and is still a queued command.
C30_Witness ==
    /\ Len(units) = 2
    /\ units[1].pc = "done"
    /\ units[2].pc = "queued"
    /\ units[2].sender = NoSender
    /\ Spawned = {1}

====
